---- MODULE Spec2Model ----
(***************************************************************************)
(* Client-side scripts of the repository, as state machines over the DOM   *)
(* elements they read and write.                                           *)
(*                                                                         *)
(*   SpecProduct  ecomweb/static/js/product-detail.js: quantity stepper    *)
(*                and asynchronous add-to-cart submission.                 *)
(*   SpecResume   resume_builder/.../resume-form.js: dynamic formsets.     *)
(*   SpecGallery  product-detail.js: thumbnail gallery.                    *)
(*   SpecPicture  resume-form.js: profile picture preview and removal.     *)
(*   SpecTasks    unnamed/part_000: task accordion.                        *)
(*                                                                         *)
(* Each event handler runs to completion (one action).  The fetch of the   *)
(* add-to-cart form suspends twice: until the response arrives and until   *)
(* its body has been read; the then/catch/finally callbacks that follow    *)
(* the body run back to back as microtasks (one action).                   *)
(***************************************************************************)
EXTENDS Integers, Sequences, FiniteSets, TLC

VARIABLES
    page,           \* the server-rendered product page: which elements exist, max attribute, submit label
    quantityInput,  \* #quantity: [value, max]
    incrementBtn,   \* .increment-btn: [disabled, dimmed]
    cartCount,      \* .cart-count: [textContent, hidden]
    submitButton,   \* button[type=submit] of #add-to-cart-form: [disabled, innerHTML]
    requests,       \* add-to-cart requests in flight, each with its closure
    alerts,         \* notifications shown since the last submit event
    totalForms,     \* resume form: value of each TOTAL_FORMS field, by element id
    containers,     \* resume form: the .formset-item blocks of each container, by element id
    template,       \* resume form: the field identifiers of the block templates
    thumbnails,     \* product gallery: the .thumbnail-btn buttons, in document order
    mainImage,      \* product gallery: the main image: [exists, src]
    selected,       \* product gallery: the thumbnail clicked last (0: none yet)
    taskItems,      \* task list: the .task-item elements, in document order
    clicked,        \* task list: the item whose header was clicked last (0: none yet)
    profile,        \* resume form: profile picture preview, avatar, file input, clear fields
    reads,          \* resume form: FileReader loads in progress, each with its closure
    lastOp          \* the handler that ran last, with the payload fields it was given

vars == <<page, quantityInput, incrementBtn, cartCount, submitButton, requests,
          alerts, totalForms, containers, template, thumbnails, mainImage,
          selected, taskItems, clicked, profile, reads, lastOp>>

productVars == <<page, quantityInput, incrementBtn, cartCount, submitButton,
                 requests, alerts>>
resumeVars == <<totalForms, containers, template>>
galleryVars == <<thumbnails, mainImage, selected>>
taskVars == <<taskItems, clicked>>
pictureVars == <<profile, reads>>

\* What the handlers of one script leave alone: the elements of the others.
offProduct == <<resumeVars, galleryVars, taskVars, pictureVars>>
offResume == <<productVars, galleryVars, taskVars, pictureVars>>
offGallery == <<productVars, resumeVars, taskVars, pictureVars>>
offTasks == <<productVars, resumeVars, galleryVars, pictureVars>>
offPicture == <<productVars, resumeVars, galleryVars, taskVars>>

\* Pages without the gallery, the task list or the profile picture.
GalleryIdle ==
    /\ thumbnails = << >>
    /\ mainImage = [exists |-> FALSE, src |-> ""]
    /\ selected = 0

TasksIdle == taskItems = << >> /\ clicked = 0

PictureIdle ==
    /\ profile = [hasForm |-> FALSE, hasFileInput |-> FALSE, hasAvatar |-> FALSE,
                  hasSlot |-> FALSE, inlineChange |-> FALSE, removeButton |-> "none",
                  previewAttached |-> FALSE, previewSrc |-> "",
                  avatarShown |-> FALSE, fileValue |-> "", clearFields |-> 0]
    /\ reads = << >>

-----------------------------------------------------------------------------
(* Bounds *)

MaxStock == 3
MaxRequests == 2
MaxForms == 3
MaxInitialForms == 1
MaxThumbnails == 2
MaxReads == 2

(* Program constants *)

DefaultMaxQuantity == 10

LoadingLabel == "<i class=\"fas fa-spinner fa-spin mr-2\"></i> Adding..."
DefaultSuccessText == "Item added to cart!"
DefaultErrorText == "Error adding item to cart"
GenericErrorText == "An error occurred. Please try again."

-----------------------------------------------------------------------------
(* Values *)

\* The text of an attribute or input: a decimal numeral, or text parseInt
\* cannot read (empty, non-numeric).
Numeral(n) == [num |-> TRUE, n |-> n]
NonNumeric == [num |-> FALSE, n |-> 0]

\* An optional numeric field of a JSON payload: undefined, or a number.
Absent == [has |-> FALSE, v |-> 0]
Some(v) == [has |-> TRUE, v |-> v]
Opt(S) == {Absent} \cup {Some(v) : v \in S}

\* parseInt(text) || d : NaN and 0 are falsy.
ParseIntOr(text, d) == IF text.num /\ text.n # 0 THEN text.n ELSE d

\* a || b on optional numbers: undefined and 0 are falsy.
OrElse(a, b) == IF a.has /\ a.v # 0 THEN a ELSE b

\* a || d on message texts: undefined and "" are falsy.
TextOr(text, d) == IF text # "" THEN text ELSE d

Notification(message, type) == [text |-> message, type |-> type]

\* A handler run that was given no payload.
Op(name) == [name |-> name, message |-> "", stock_available |-> Absent,
             in_cart |-> Absent]

\* A run of the data handler, with the payload fields that decide the
\* notification text and the stock update.
DataOp(name, data) ==
    [name |-> name, message |-> data.message,
     stock_available |-> data.stock_available, in_cart |-> data.in_cart]

-----------------------------------------------------------------------------
(* Product page: quantity controls *)

\* const maxQuantity, read once when the page has loaded.
maxQuantity ==
    IF page.hasQuantity THEN ParseIntOr(page.maxAttr, DefaultMaxQuantity)
    ELSE DefaultMaxQuantity

\* The three listeners are registered only when all three elements exist.
StepperWired == page.hasQuantity /\ page.hasDecrement /\ page.hasIncrement

DecrementValue(current) ==
    LET value == ParseIntOr(Numeral(current), 1)
    IN  IF value > 1 THEN value - 1 ELSE current

IncrementValue(current) ==
    LET value == ParseIntOr(Numeral(current), 1)
    IN  IF value < maxQuantity THEN value + 1 ELSE current

ChangeValue(raw) ==
    LET value == ParseIntOr(raw, 1)
        low == IF value < 1 THEN 1 ELSE value
    IN  IF low > maxQuantity THEN maxQuantity ELSE low

\* What the user can type into #quantity.
ManualInputs == {NonNumeric} \cup {Numeral(n) : n \in -1 .. DefaultMaxQuantity + 1}

DecrementClick ==
    /\ StepperWired
    /\ quantityInput' = [quantityInput EXCEPT !.value = DecrementValue(@)]
    /\ lastOp' = Op("decrement")
    /\ UNCHANGED <<page, incrementBtn, cartCount, submitButton, requests, alerts>>
    /\ UNCHANGED offProduct

\* A disabled button receives no click.
IncrementClick ==
    /\ StepperWired
    /\ ~incrementBtn.disabled
    /\ quantityInput' = [quantityInput EXCEPT !.value = IncrementValue(@)]
    /\ lastOp' = Op("increment")
    /\ UNCHANGED <<page, incrementBtn, cartCount, submitButton, requests, alerts>>
    /\ UNCHANGED offProduct

QuantityChange(raw) ==
    /\ StepperWired
    /\ quantityInput' = [quantityInput EXCEPT !.value = ChangeValue(raw)]
    /\ lastOp' = Op("change")
    /\ UNCHANGED <<page, incrementBtn, cartCount, submitButton, requests, alerts>>
    /\ UNCHANGED offProduct

-----------------------------------------------------------------------------
(* Product page: add-to-cart submission *)

ServerMessage == "Only a few left in stock"

\* The JSON object of a response body; every field but success is optional.
Payloads ==
    [success : BOOLEAN,
     message : {"", ServerMessage},
     cart_count : Opt({0, 2}),
     cart_total_items : Opt({4}),
     stock_available : Opt(0 .. MaxStock),
     in_cart : Opt(0 .. MaxStock)]

\* Bodies of an OK response that give no JSON object: a syntax error, or the
\* JSON value null.
FailingBodies == {"unparseable", "null"}

\* Rendered pages: any of the looked-up elements may be missing.
Pages ==
    [hasQuantity : BOOLEAN, hasDecrement : BOOLEAN, hasIncrement : BOOLEAN,
     hasCartCount : BOOLEAN, hasSubmit : BOOLEAN,
     maxAttr : {NonNumeric} \cup {Numeral(n) : n \in 1 .. MaxStock},
     label : {"Add to Cart"}]

\* const maxAvailable = data.stock_available - (data.in_cart || 0)
MaxAvailable(data) == data.stock_available.v - OrElse(data.in_cart, Some(0)).v

\* A floor of 0 in place of 1.
NewMaxFlooredAtZero(maxAvailable) == IF maxAvailable > 0 THEN maxAvailable ELSE 0

\* maxAvailable > 0 ? maxAvailable : 1
NewMax(maxAvailable) == IF maxAvailable > 0 THEN maxAvailable ELSE 1

\* A stock update that sets max and forgets to lower the value.
SuccessQuantityNoClamp(input, maxAvailable) ==
    [max |-> Numeral(NewMax(maxAvailable)), value |-> input.value]

\* #quantity after the stock update of the success branch.
SuccessQuantity(input, maxAvailable) ==
    [max |-> Numeral(NewMax(maxAvailable)),
     value |-> IF input.value > maxAvailable THEN NewMax(maxAvailable)
               ELSE input.value]

\* .increment-btn after the stock update, when the button exists.
SuccessIncrement(button, maxAvailable) ==
    IF page.hasIncrement
    THEN [disabled |-> maxAvailable <= 0, dimmed |-> maxAvailable <= 0]
    ELSE button

\* .cart-count after the success branch, when the element exists.
SuccessCartCount(display, data) ==
    IF page.hasCartCount
    THEN [textContent |-> OrElse(data.cart_count, data.cart_total_items),
          hidden |-> FALSE]
    ELSE display

\* The success branch dereferences #quantity without a guard.
DataHandlerThrows(data) == data.stock_available.has /\ ~page.hasQuantity

\* Loading state of the submit button.
LoadingStateEnabled == [disabled |-> FALSE, innerHTML |-> LoadingLabel]

LoadingState == [disabled |-> TRUE, innerHTML |-> LoadingLabel]

\* data.message || 'Error adding item to cart'
ErrorTextDefaultOnly(data) == DefaultErrorText

ErrorText(data) == TextOr(data.message, DefaultErrorText)

\* .finally that re-enables the button and leaves the loading label.
FinallyKeepsLabel(i) ==
    /\ submitButton' = [submitButton EXCEPT !.disabled = FALSE]
    /\ requests' = [j \in 1 .. Len(requests) - 1 |->
                        IF j < i THEN requests[j] ELSE requests[j + 1]]

\* .finally of request i: the button is reset from the closure of that submit.
Finally(i) ==
    /\ submitButton' = [disabled |-> FALSE,
                        innerHTML |-> requests[i].originalButtonText]
    /\ requests' = [j \in 1 .. Len(requests) - 1 |->
                        IF j < i THEN requests[j] ELSE requests[j + 1]]

\* .catch
Catch(shown) == alerts' = Append(shown, Notification(GenericErrorText, "error"))

\* The browser starts a submission only through a submit button that is not
\* disabled; a form without one can still be submitted from a text field.
Submit ==
    /\ Len(requests) < MaxRequests
    /\ page.hasSubmit => ~submitButton.disabled
    /\ IF page.hasSubmit
       THEN /\ submitButton' = LoadingState
            /\ requests' = Append(requests,
                   [stage |-> "fetch",
                    originalButtonText |-> submitButton.innerHTML])
            /\ alerts' = << >>
            /\ lastOp' = Op("submit")
       ELSE \* TypeError on submitButton.innerHTML: no request is made
            /\ lastOp' = Op("submitThrew")
            /\ UNCHANGED <<submitButton, requests, alerts>>
    /\ UNCHANGED <<page, quantityInput, incrementBtn, cartCount>>
    /\ UNCHANGED offProduct

\* fetch() rejects: network failure.
FetchRejected(i) ==
    /\ requests[i].stage = "fetch"
    /\ Catch(alerts)
    /\ Finally(i)
    /\ lastOp' = Op("rejected")
    /\ UNCHANGED <<page, quantityInput, incrementBtn, cartCount>>
    /\ UNCHANGED offProduct

\* The response arrives; its body is read asynchronously.
ResponseArrives(i, ok) ==
    /\ requests[i].stage = "fetch"
    /\ requests' = [requests EXCEPT ![i].stage = IF ok THEN "okBody" ELSE "errorBody"]
    /\ lastOp' = Op("response")
    /\ UNCHANGED <<page, quantityInput, incrementBtn, cartCount, submitButton, alerts>>
    /\ UNCHANGED offProduct

\* .then(data => ...) and, when it throws, .catch.
DataHandler(data) ==
    IF ~data.success
    THEN /\ alerts' = Append(alerts, Notification(ErrorText(data), "error"))
         /\ UNCHANGED <<quantityInput, incrementBtn, cartCount>>
    ELSE LET shown == Append(alerts,
                 Notification(TextOr(data.message, DefaultSuccessText), "success"))
         IN  /\ cartCount' = SuccessCartCount(cartCount, data)
             /\ IF ~data.stock_available.has
                THEN /\ alerts' = shown
                     /\ UNCHANGED <<quantityInput, incrementBtn>>
                ELSE IF DataHandlerThrows(data)
                THEN /\ Catch(shown)
                     /\ UNCHANGED <<quantityInput, incrementBtn>>
                ELSE /\ alerts' = shown
                     /\ quantityInput' = SuccessQuantity(quantityInput, MaxAvailable(data))
                     /\ incrementBtn' = SuccessIncrement(incrementBtn, MaxAvailable(data))

\* A non-OK handler that returns the parsed body instead of throwing it.
ErrorBodyReturned(i, parsed) ==
    /\ requests[i].stage = "errorBody"
    /\ IF parsed
       THEN \E data \in Payloads : DataHandler(data)
       ELSE /\ Catch(alerts)
            /\ UNCHANGED <<quantityInput, incrementBtn, cartCount>>
    /\ Finally(i)
    /\ lastOp' = Op(IF parsed THEN "errorBodyThrown" ELSE "errorBodyUnparseable")
    /\ UNCHANGED page
    /\ UNCHANGED offProduct

\* Body of a non-OK response: a body that does not parse rejects, a parsed
\* body is thrown; .catch logs either and shows the generic text.
ErrorBodyRead(i, parsed) ==
    /\ requests[i].stage = "errorBody"
    /\ Catch(alerts)
    /\ Finally(i)
    /\ lastOp' = Op(IF parsed THEN "errorBodyThrown" ELSE "errorBodyUnparseable")
    /\ UNCHANGED <<page, quantityInput, incrementBtn, cartCount>>
    /\ UNCHANGED offProduct

\* Body of an OK response that gives no object: response.json() rejects on a
\* syntax error, data.success throws on the JSON value null.
OkBodyFails(i, kind) ==
    /\ requests[i].stage = "okBody"
    /\ Catch(alerts)
    /\ Finally(i)
    /\ lastOp' = Op(IF kind = "null" THEN "okBodyNull" ELSE "okBodyUnparseable")
    /\ UNCHANGED <<page, quantityInput, incrementBtn, cartCount>>
    /\ UNCHANGED offProduct

\* Body of an OK response: .then(data => ...), then .catch, then .finally.
OkBodyRead(i, data) ==
    /\ requests[i].stage = "okBody"
    /\ DataHandler(data)
    /\ Finally(i)
    /\ lastOp' = DataOp(IF data.success THEN "okBodySuccess" ELSE "okBodyFailure", data)
    /\ UNCHANGED page
    /\ UNCHANGED offProduct

-----------------------------------------------------------------------------
(* Product page: specification *)

ResumeIdle ==
    /\ totalForms = << >>
    /\ containers = << >>
    /\ template = << >>

InitProduct ==
    /\ page \in Pages
    /\ quantityInput = [value |-> 1, max |-> page.maxAttr]
    /\ incrementBtn = [disabled |-> FALSE, dimmed |-> FALSE]
    /\ cartCount = [textContent |-> Absent, hidden |-> TRUE]
    /\ submitButton = [disabled |-> FALSE, innerHTML |-> page.label]
    /\ requests = << >>
    /\ alerts = << >>
    /\ lastOp = Op("load")
    /\ ResumeIdle
    /\ GalleryIdle /\ TasksIdle /\ PictureIdle

NextProduct ==
    \/ DecrementClick
    \/ IncrementClick
    \/ \E raw \in ManualInputs : QuantityChange(raw)
    \/ Submit
    \/ \E i \in DOMAIN requests : FetchRejected(i)
    \/ \E i \in DOMAIN requests, ok \in BOOLEAN : ResponseArrives(i, ok)
    \/ \E i \in DOMAIN requests, parsed \in BOOLEAN : ErrorBodyRead(i, parsed)
    \/ \E i \in DOMAIN requests, kind \in FailingBodies : OkBodyFails(i, kind)
    \/ \E i \in DOMAIN requests, data \in Payloads : OkBodyRead(i, data)

SpecProduct == InitProduct /\ [][NextProduct]_vars

-----------------------------------------------------------------------------
(* Resume form: identifiers *)

\* An identifier (for, id, name) is a sequence of segments: runs of digits,
\* which /\d+/g matches, and text without digits.  The empty sequence is the
\* empty or missing attribute.
Txt(s) == [digits |-> FALSE, s |-> s, n |-> 0]
Digits(n) == [digits |-> TRUE, s |-> "", n |-> n]
Placeholder == Txt("__prefix__")

\* template.replace(/__prefix__/g, formIdx)
ReplacePrefix(ident, formIdx) ==
    [t \in DOMAIN ident |->
        IF ident[t] = Placeholder THEN Digits(formIdx) ELSE ident[t]]

\* A renumbering that counts blocks from 1.
ReplaceDigitsOneBased(ident, index) ==
    [t \in DOMAIN ident |->
        IF ident[t].digits THEN Digits(index + 1) ELSE ident[t]]

\* ident.replace(/\d+/g, index)
ReplaceDigits(ident, index) ==
    [t \in DOMAIN ident |->
        IF ident[t].digits THEN Digits(index) ELSE ident[t]]

\* The label and the field of a formset-item of the Django formset `prefix`,
\* as the server renders them into the <prefix>-template element.
BlockTemplate(prefix, field) ==
    LET id == <<Txt("id_"), Txt(prefix), Txt("-"), Placeholder, Txt("-")>> \o field
        name == <<Txt(prefix), Txt("-"), Placeholder, Txt("-")>> \o field
    IN  <<[tag |-> "label", htmlFor |-> id, id |-> << >>, name |-> << >>],
          [tag |-> "input", htmlFor |-> << >>, id |-> id, name |-> name]>>

\* Field names a template may use: plain, or with a number of their own.
FieldNames == {<<Txt("degree")>>, <<Txt("line"), Digits(2)>>}

\* A rendering that numbers the new block one too high.
RenderNext(elems, formIdx) ==
    [e \in DOMAIN elems |->
        [elems[e] EXCEPT !.htmlFor = ReplacePrefix(@, formIdx + 1),
                         !.id = ReplacePrefix(@, formIdx + 1),
                         !.name = ReplacePrefix(@, formIdx + 1)]]

\* The template's HTML with the placeholder replaced, as one new block whose
\* delete button has no listener yet.
Render(elems, formIdx) ==
    [e \in DOMAIN elems |->
        [elems[e] EXCEPT !.htmlFor = ReplacePrefix(@, formIdx),
                         !.id = ReplacePrefix(@, formIdx),
                         !.name = ReplacePrefix(@, formIdx)]]

NewBlock(elems) == [elems |-> elems, deleteFor |-> ""]

-----------------------------------------------------------------------------
(* Resume form: handlers *)

\* The element ids each add handler names, and the formType it passes on.
AddHandlers ==
    [addEducation |->
        [totalId |-> "id_education-TOTAL_FORMS", templateId |-> "education-template",
         containerId |-> "education-forms", formType |-> "education"],
     addExperience |->
        [totalId |-> "id_experience-TOTAL_FORMS", templateId |-> "experience-template",
         containerId |-> "experience-forms", formType |-> "experience"],
     addSkill |->
        [totalId |-> "id_skills-TOTAL_FORMS", templateId |-> "skill-template",
         containerId |-> "skill-forms", formType |-> "skills"]]

FormTypes == {"education", "experience", "skills"}

\* `${formType}-forms`
FormsId(formType) ==
    CASE formType = "education" -> "education-forms"
      [] formType = "experience" -> "experience-forms"
      [] formType = "skills" -> "skills-forms"

\* `id_${formType}-TOTAL_FORMS`
TotalFormsId(formType) ==
    CASE formType = "education" -> "id_education-TOTAL_FORMS"
      [] formType = "experience" -> "id_experience-TOTAL_FORMS"
      [] formType = "skills" -> "id_skills-TOTAL_FORMS"

\* Every delete button of the container that has no data-initialized
\* attribute gets a listener bound to formType, and the attribute.
InitializeDeleteButtons(formType, conts) ==
    LET id == FormsId(formType)
    IN  IF id \notin DOMAIN conts THEN conts
        ELSE [conts EXCEPT ![id] =
                [k \in DOMAIN @ |->
                    IF @[k].deleteFor = "" THEN [@[k] EXCEPT !.deleteFor = formType]
                    ELSE @[k]]]

\* The blocks of a container, renumbered by position.
Renumbered(blocks) ==
    [k \in DOMAIN blocks |->
        [blocks[k] EXCEPT !.elems =
            [e \in DOMAIN @ |->
                [@[e] EXCEPT !.htmlFor = ReplaceDigits(@, k - 1),
                             !.id = ReplaceDigits(@, k - 1),
                             !.name = ReplaceDigits(@, k - 1)]]]]

\* updateFormIndices(formType) on containers conts: the new <<totalForms, containers>>.
UpdateFormIndices(formType, conts) ==
    IF FormsId(formType) \notin DOMAIN conts THEN <<totalForms, conts>>
    ELSE IF TotalFormsId(formType) \notin DOMAIN totalForms THEN <<totalForms, conts>>
    ELSE <<[totalForms EXCEPT ![TotalFormsId(formType)] = Len(conts[FormsId(formType)])],
           [conts EXCEPT ![FormsId(formType)] = Renumbered(@)]>>

Remove(blocks, k) ==
    [j \in 1 .. Len(blocks) - 1 |-> IF j < k THEN blocks[j] ELSE blocks[j + 1]]

ProductIdle ==
    /\ page = [hasQuantity |-> FALSE, hasDecrement |-> FALSE, hasIncrement |-> FALSE,
               hasCartCount |-> FALSE, hasSubmit |-> FALSE, maxAttr |-> NonNumeric,
               label |-> ""]
    /\ quantityInput = [value |-> 0, max |-> NonNumeric]
    /\ incrementBtn = [disabled |-> FALSE, dimmed |-> FALSE]
    /\ cartCount = [textContent |-> Absent, hidden |-> TRUE]
    /\ submitButton = [disabled |-> FALSE, innerHTML |-> ""]
    /\ requests = << >>
    /\ alerts = << >>

\* Click on an add button.  A lookup of a missing element throws before
\* anything has been changed.
AddClick(button) ==
    LET h == AddHandlers[button] IN
    /\ h.containerId \in DOMAIN containers => Len(containers[h.containerId]) < MaxForms
    /\ IF \/ h.totalId \notin DOMAIN totalForms
          \/ h.templateId \notin DOMAIN template
          \/ h.containerId \notin DOMAIN containers
       THEN /\ lastOp' = Op("addThrew")
            /\ UNCHANGED <<totalForms, containers>>
       ELSE LET formIdx == totalForms[h.totalId]
                block == NewBlock(Render(template[h.templateId], formIdx))
                appended == [containers EXCEPT ![h.containerId] = Append(@, block)]
            IN  /\ containers' = InitializeDeleteButtons(h.formType, appended)
                /\ totalForms' = [totalForms EXCEPT ![h.totalId] = formIdx + 1]
                /\ lastOp' = Op(button)
    /\ UNCHANGED template
    /\ UNCHANGED offResume

\* Click on the delete button of block k of a container: only a button that
\* was given a listener reacts.
DeleteClick(containerId, k) ==
    /\ containers[containerId][k].deleteFor # ""
    /\ LET formType == containers[containerId][k].deleteFor
           removed == [containers EXCEPT ![containerId] = Remove(@, k)]
           updated == UpdateFormIndices(formType, removed)
       IN  /\ totalForms' = updated[1]
           /\ containers' = updated[2]
    /\ lastOp' = Op("delete")
    /\ UNCHANGED template
    /\ UNCHANGED offResume

\* The page as rendered, after DOMContentLoaded has initialised the delete
\* buttons of the three form types.
InitResume ==
    /\ \E field \in FieldNames :
           template = [id \in {"education-template", "experience-template", "skill-template"} |->
                          BlockTemplate(CASE id = "education-template" -> "education"
                                          [] id = "experience-template" -> "experience"
                                          [] id = "skill-template" -> "skills", field)]
    /\ \E count \in [{"education", "experience", "skills"} -> 0 .. MaxInitialForms] :
           /\ totalForms = [id \in {"id_education-TOTAL_FORMS", "id_experience-TOTAL_FORMS",
                                    "id_skills-TOTAL_FORMS"} |->
                               CASE id = "id_education-TOTAL_FORMS" -> count["education"]
                                 [] id = "id_experience-TOTAL_FORMS" -> count["experience"]
                                 [] id = "id_skills-TOTAL_FORMS" -> count["skills"]]
           /\ LET rendered ==
                      [id \in {"education-forms", "experience-forms", "skill-forms"} |->
                          LET prefix == CASE id = "education-forms" -> "education"
                                          [] id = "experience-forms" -> "experience"
                                          [] id = "skill-forms" -> "skills"
                              tid == CASE id = "education-forms" -> "education-template"
                                       [] id = "experience-forms" -> "experience-template"
                                       [] id = "skill-forms" -> "skill-template"
                          IN  [k \in 1 .. count[prefix] |->
                                  NewBlock(Render(template[tid], k - 1))]]
              IN  containers =
                      InitializeDeleteButtons("skills",
                          InitializeDeleteButtons("experience",
                              InitializeDeleteButtons("education", rendered)))
    /\ lastOp = Op("load")
    /\ ProductIdle
    /\ GalleryIdle /\ TasksIdle /\ PictureIdle

NextResume ==
    \/ AddClick("addEducation")
    \/ AddClick("addExperience")
    \/ AddClick("addSkill")
    \/ \E c \in DOMAIN containers : \E k \in DOMAIN containers[c] : DeleteClick(c, k)

SpecResume == InitResume /\ [][NextResume]_vars

-----------------------------------------------------------------------------
(* Product page: properties *)

StepperOps == {"decrement", "increment", "change"}

\* max(a, b) on integers.
Larger(a, b) == IF a > b THEN a ELSE b

\* stock_available - in_cart of the payload the step handled, a missing
\* in_cart counted as 0.
StockLeft(op) ==
    op.stock_available.v - (IF op.in_cart.has THEN op.in_cart.v ELSE 0)

\* The step is the success branch's stock update on a page with #quantity.
StockUpdateStep ==
    /\ lastOp'.name = "okBodySuccess"
    /\ lastOp'.stock_available.has
    /\ page.hasQuantity

\* C2 (as claimed): after every decrement, increment or manual change the
\* quantity value is an integer in [1, max], max being the current max of the
\* quantity input, also after add-to-cart responses have replaced max.
C2_QuantityWithinMax ==
    (lastOp.name \in StepperOps /\ quantityInput.max.num) =>
        quantityInput.value \in 1 .. quantityInput.max.n

\* C3 (as claimed): a success payload carrying stock_available sets the
\* quantity input's max to max(stock_available - in_cart, 0).
C3_MaxFlooredAtZero ==
    [][StockUpdateStep =>
          quantityInput'.max = Numeral(Larger(StockLeft(lastOp'), 0))]_vars

\* C3 (amended): a success payload carrying stock_available sets the quantity
\* input's max to max(stock_available - in_cart, 1), a missing in_cart counted
\* as 0; stock_available = 2 and in_cart = 2 gives max = 1.
C3_MaxFlooredAtOne ==
    [][StockUpdateStep =>
          quantityInput'.max = Numeral(Larger(StockLeft(lastOp'), 1))]_vars

\* The payload {success: true, stock_available: 2, in_cart: 2} was handled.
C3_Witness ==
    /\ lastOp.name = "okBodySuccess"
    /\ lastOp.stock_available = Some(2)
    /\ lastOp.in_cart = Some(2)
    /\ page.hasQuantity
    /\ quantityInput.max = Numeral(1)

\* C4: on a success payload carrying stock_available, with
\* m = stock_available - in_cart: a quantity greater than m becomes m when
\* m > 0 and 1 when m <= 0, a quantity not greater than m is unchanged, and
\* the increment control ends disabled (and dimmed) exactly when m <= 0.
C4_ClampAndIncrementControl ==
    [][StockUpdateStep =>
          LET m == StockLeft(lastOp')
          IN  /\ quantityInput.value > m /\ m > 0 => quantityInput'.value = m
              /\ quantityInput.value > m /\ m <= 0 => quantityInput'.value = 1
              /\ quantityInput.value <= m =>
                     quantityInput'.value = quantityInput.value
              /\ page.hasIncrement =>
                     /\ incrementBtn'.disabled = (m <= 0)
                     /\ incrementBtn'.dimmed = (m <= 0)]_vars

\* A success response with positive stock left lowered the quantity to the
\* new max and left the increment control enabled.
C4_Witness ==
    /\ lastOp.name = "okBodySuccess"
    /\ lastOp.stock_available.has
    /\ StockLeft(lastOp) > 1
    /\ page.hasIncrement /\ page.hasQuantity
    /\ page.maxAttr.num /\ page.maxAttr.n > StockLeft(lastOp)
    /\ quantityInput.value = StockLeft(lastOp)
    /\ ~incrementBtn.disabled

\* The handlers that end a request: a rejected fetch, or a body read.
SettleOps == {"rejected", "errorBodyThrown", "errorBodyUnparseable",
              "okBodyNull", "okBodyUnparseable", "okBodySuccess", "okBodyFailure"}

\* C5: while a request is in flight the submit control is disabled and shows
\* the loading label; when the request has settled, however it settled, the
\* form is idle again, the control enabled and carrying the label it had
\* before the submission.
C5_SubmitControlRestored ==
    /\ requests # << >> =>
           submitButton.disabled /\ submitButton.innerHTML = LoadingLabel
    /\ lastOp.name \in SettleOps =>
           /\ requests = << >>
           /\ ~submitButton.disabled
           /\ submitButton.innerHTML = page.label

\* A non-OK response with an unparseable body has settled.
C5_Witness ==
    /\ lastOp.name = "errorBodyUnparseable"
    /\ requests = << >>
    /\ ~submitButton.disabled
    /\ submitButton.innerHTML = page.label

\* C6 (as claimed): once a success response has replaced the quantity maximum,
\* every later increment and manual change leaves the quantity at most that
\* new maximum.
C6_StepperUsesNewMax ==
    [][(/\ lastOp'.name \in {"increment", "change"}
        /\ quantityInput.max.num
        /\ quantityInput.max # page.maxAttr)
       => quantityInput'.value <= quantityInput.max.n]_vars

\* C7: a non-OK response, whether or not its body parses, shows one error
\* notification and changes neither the cart-count display nor the quantity
\* input nor the increment control.
C7_NonOkIsFailure ==
    [][lastOp'.name \in {"errorBodyThrown", "errorBodyUnparseable"} =>
          /\ Len(alerts') = 1
          /\ alerts'[1].type = "error"
          /\ UNCHANGED <<cartCount, quantityInput, incrementBtn>>]_vars

\* A non-OK response with a parsed body has settled on a page that an earlier
\* success had updated.
C7_Witness ==
    /\ lastOp.name = "errorBodyThrown"
    /\ alerts = <<Notification(GenericErrorText, "error")>>
    /\ ~cartCount.hidden
    /\ quantityInput.max # page.maxAttr

\* C8: an OK response whose payload has success false shows one error
\* notification, with the server message when there is one and the default
\* text otherwise, and changes neither the cart-count display nor the quantity
\* input nor the increment control, whatever else the payload carries.
C8_BusinessFailure ==
    [][lastOp'.name = "okBodyFailure" =>
          /\ alerts' = <<Notification(
                 IF lastOp'.message # "" THEN lastOp'.message ELSE DefaultErrorText,
                 "error")>>
          /\ UNCHANGED <<cartCount, quantityInput, incrementBtn>>]_vars

\* A declared failure that carries a server message and stock figures has
\* been shown.
C8_Witness ==
    /\ lastOp.name = "okBodyFailure"
    /\ lastOp.message = ServerMessage
    /\ lastOp.stock_available = Some(0)
    /\ alerts = <<Notification(ServerMessage, "error")>>
    /\ page.hasQuantity /\ page.hasIncrement /\ page.hasCartCount

\* C9: at most one add-to-cart request is in flight, and the submit control
\* is disabled for as long as one is.
C9_OneRequestInFlight ==
    /\ Len(requests) <= 1
    /\ requests # << >> => submitButton.disabled

\* A stepper click ran while the request was pending.
C9_Witness ==
    /\ Len(requests) = 1
    /\ submitButton.disabled
    /\ lastOp.name \in StepperOps
    /\ quantityInput.value > 1

-----------------------------------------------------------------------------
(* Resume form: properties *)

AddButtons == {"addEducation", "addExperience", "addSkill"}

\* The non-empty identifiers of an element.
Identifiers(el) == {ident \in {el.htmlFor, el.id, el.name} : ident # << >>}

\* The positional index of an identifier prefix-INDEX-field: its first run of
\* digits.
IndexSegment(ident) ==
    LET t == CHOOSE t \in DOMAIN ident :
                 ident[t].digits /\ \A u \in 1 .. t - 1 : ~ident[u].digits
    IN  ident[t].n

\* Every identifier of the block carries the index.
HasIndex(block, index) ==
    \A e \in DOMAIN block.elems : \A ident \in Identifiers(block.elems[e]) :
        /\ \E t \in DOMAIN ident : ident[t].digits
        /\ IndexSegment(ident) = index

\* C1: for each formset kind, after any sequence of add and delete operations
\* the total-count field equals the number of blocks in the container and the
\* blocks' indices are 0..N-1 in container order.
C1_CountAndIndicesContiguous ==
    \A b \in AddButtons :
        LET h == AddHandlers[b]
            blocks == containers[h.containerId]
        IN  /\ totalForms[h.totalId] = Len(blocks)
            /\ \A k \in DOMAIN blocks : HasIndex(blocks[k], k - 1)

\* The number a field name carries of its own (the 2 of line2), as it stands
\* in the name of the block's field; -1 when the field name has none.
FieldNumber(block) ==
    LET name == block.elems[2].name
    IN  IF Len(name) = 6 /\ name[6].digits THEN name[6].n ELSE -1

\* A block was added behind a block that a delete had renumbered (the
\* renumbering shows in the field number), while the skill container holds
\* as many blocks as the model allows.
C1_Witness ==
    /\ lastOp.name = "addEducation"
    /\ Len(containers["education-forms"]) = 2
    /\ FieldNumber(containers["education-forms"][1]) = 0
    /\ FieldNumber(containers["education-forms"][2]) = 2
    /\ Len(containers["skill-forms"]) = MaxForms

\* C10: an add operation leaves every existing block as it was, appends one
\* block whose index is the total-count value read before the add, and
\* raises that total-count field by exactly 1; nothing else changes.
C10_AddLeavesExistingBlocks ==
    [][\A b \in AddButtons :
          lastOp'.name = b =>
              LET h == AddHandlers[b]
                  before == containers[h.containerId]
                  after == containers'[h.containerId]
              IN  /\ Len(after) = Len(before) + 1
                  /\ \A k \in DOMAIN before : after[k] = before[k]
                  /\ HasIndex(after[Len(after)], totalForms[h.totalId])
                  /\ totalForms'[h.totalId] = totalForms[h.totalId] + 1
                  /\ \A c \in DOMAIN containers \ {h.containerId} :
                         containers'[c] = containers[c]
                  /\ \A t \in DOMAIN totalForms \ {h.totalId} :
                         totalForms'[t] = totalForms[t]]_vars

\* A block was added behind two existing blocks.
C10_Witness ==
    /\ lastOp.name = "addExperience"
    /\ Len(containers["experience-forms"]) = 3
    /\ totalForms["id_experience-TOTAL_FORMS"] = 3
    /\ HasIndex(containers["experience-forms"][3], 2)

-----------------------------------------------------------------------------
(* Product page: image gallery *)

\* Values of a thumbnail image's data-full-src ("": no attribute, or empty).
FullSources == {"", "full-a.jpg", "full-b.jpg"}

\* A .thumbnail-btn as rendered: highlighted (ring-2 ring-indigo-500) or not,
\* with or without an img, the img with or without data-full-src.
Thumbnails ==
    [highlighted : BOOLEAN, hasImg : BOOLEAN, fullSrc : FullSources]

\* The listeners are registered only when there are thumbnails and a main image.
GalleryWired == Len(thumbnails) > 0 /\ mainImage.exists

\* A click that highlights the clicked thumbnail and forgets the others.
HighlightedKeepsOthers(thumbs, k) ==
    [j \in DOMAIN thumbs |->
        [thumbs[j] EXCEPT !.highlighted = @ \/ j = k]]

\* classList.remove on every thumbnail, then classList.add on the clicked one.
Highlighted(thumbs, k) ==
    [j \in DOMAIN thumbs |-> [thumbs[j] EXCEPT !.highlighted = (j = k)]]

\* Click on thumbnail k.  Without an img, querySelector('img') is null and
\* getAttribute throws after the highlight has moved.
ThumbnailClick(k) ==
    /\ GalleryWired
    /\ thumbnails' = Highlighted(thumbnails, k)
    /\ selected' = k
    /\ IF ~thumbnails[k].hasImg
       THEN /\ lastOp' = Op("selectThrew")
            /\ UNCHANGED mainImage
       ELSE /\ lastOp' = Op("select")
            /\ mainImage' = IF thumbnails[k].fullSrc # ""
                            THEN [mainImage EXCEPT !.src = thumbnails[k].fullSrc]
                            ELSE mainImage
    /\ UNCHANGED offGallery

InitGallery ==
    /\ \E n \in 0 .. MaxThumbnails : thumbnails \in [1 .. n -> Thumbnails]
    /\ mainImage \in [exists : BOOLEAN, src : {"main.jpg"}]
    /\ selected = 0
    /\ lastOp = Op("load")
    /\ ProductIdle /\ ResumeIdle /\ TasksIdle /\ PictureIdle

NextGallery == \E k \in DOMAIN thumbnails : ThumbnailClick(k)

SpecGallery == InitGallery /\ [][NextGallery]_vars

\* C11: after a thumbnail selection the highlight is carried by the selected
\* thumbnail and by no other; the main image source becomes the thumbnail's
\* data-full-src when it has one and is unchanged when it has none.
C11_HighlightFollowsSelection ==
    [][lastOp'.name \in {"select", "selectThrew"} =>
          /\ \A j \in DOMAIN thumbnails' :
                 thumbnails'[j].highlighted = (j = selected')
          /\ LET thumb == thumbnails[selected']
             IN  mainImage'.src =
                     IF thumb.hasImg /\ thumb.fullSrc # "" THEN thumb.fullSrc
                     ELSE mainImage.src]_vars

\* The second thumbnail, which has no data-full-src, was selected after the
\* first had set the main image: the highlight moved, the source stayed.
C11_Witness ==
    /\ lastOp.name = "select"
    /\ Len(thumbnails) = 2
    /\ selected = 2
    /\ thumbnails[2].hasImg /\ thumbnails[2].fullSrc = ""
    /\ thumbnails[2].highlighted /\ ~thumbnails[1].highlighted
    /\ thumbnails[1].fullSrc = "full-a.jpg"
    /\ mainImage.src = "full-a.jpg"

-----------------------------------------------------------------------------
(* Resume form: profile picture *)

Files == {"a.png", "b.png"}

\* The remove button as rendered: none; one whose onclick attribute is exactly
\* removeProfilePicture(), which the script finds and gives a second, registered
\* listener; or one whose inline handler calls the function in other words.
RemoveButtons == {"none", "exact", "other"}

\* Rendered pages: elements the handlers look up may be missing; a stored
\* picture is shown in #profile-preview, otherwise the empty avatar is shown.
\* The page itself renders no input named profile_picture-clear.
Profiles ==
    {p \in [hasForm : BOOLEAN, hasFileInput : BOOLEAN, hasAvatar : BOOLEAN,
            hasSlot : BOOLEAN, inlineChange : BOOLEAN, removeButton : RemoveButtons,
            previewAttached : BOOLEAN, previewSrc : {"", "stored.jpg"},
            avatarShown : BOOLEAN, fileValue : {""}, clearFields : {0}] :
        /\ p.previewSrc = (IF p.previewAttached THEN "stored.jpg" ELSE "")
        /\ p.avatarShown = (p.hasAvatar /\ ~p.previewAttached)}

\* A removeProfilePicture that appends the hidden field without looking for
\* an existing one.
RemoveProfilePictureAlwaysAppends(p) ==
    [p EXCEPT !.previewAttached = FALSE,
              !.previewSrc = "",
              !.avatarShown = p.hasAvatar,
              !.fileValue = "",
              !.clearFields = IF p.hasForm THEN @ + 1 ELSE @]

\* removeProfilePicture(), one run.  Without #resume-form, appendChild throws
\* after the other elements have been updated.
RemoveProfilePicture(p) ==
    [p EXCEPT !.previewAttached = FALSE,
              !.previewSrc = "",
              !.avatarShown = p.hasAvatar,
              !.fileValue = "",
              !.clearFields = IF @ = 0 /\ p.hasForm THEN 1 ELSE @]

\* The preview references that loads in progress hold, after #profile-preview
\* has left the document.
Detached(rs) ==
    [i \in DOMAIN rs |->
        [rs[i] EXCEPT !.captured = IF @ = "attached" THEN "detached" ELSE @]]

\* A click on the remove button runs the inline handler and, when the script
\* found the button, the registered listener after it.
ClearClick ==
    /\ profile.removeButton # "none"
    /\ profile' = IF profile.removeButton = "exact"
                  THEN RemoveProfilePicture(RemoveProfilePicture(profile))
                  ELSE RemoveProfilePicture(profile)
    /\ reads' = Detached(reads)
    /\ lastOp' = Op(IF profile.hasForm \/ profile.clearFields > 0
                    THEN "clear" ELSE "clearThrew")
    /\ UNCHANGED offPicture

\* The user picks a file.  The registered change listener hands previewImage
\* the event, which has no files, so only an inline onchange="previewImage(this)"
\* starts a FileReader; its onload keeps the #profile-preview found now.
SelectFile(file) ==
    /\ profile.hasFileInput
    /\ Len(reads) < MaxReads
    /\ profile' = [profile EXCEPT !.fileValue = file]
    /\ reads' = IF profile.inlineChange
                THEN Append(reads,
                        [file |-> file,
                         captured |-> IF profile.previewAttached THEN "attached"
                                      ELSE "none"])
                ELSE reads
    /\ lastOp' = Op("fileSelected")
    /\ UNCHANGED offPicture

\* An onload that drops the clear field because a new picture was chosen.
PreviewLoadedDropsClear(p, read) ==
    [p EXCEPT !.previewAttached = @ \/ (read.captured = "none" /\ p.hasSlot),
              !.previewSrc = IF read.captured = "attached" \/ (read.captured = "none" /\ p.hasSlot)
                             THEN read.file ELSE @,
              !.avatarShown = FALSE,
              !.clearFields = 0]

\* reader.onload: the kept preview gets the data URL; without one a new img
\* replaces the content of the picture slot, when there is a slot.
PreviewLoaded(p, read) ==
    [p EXCEPT !.previewAttached = @ \/ (read.captured = "none" /\ p.hasSlot),
              !.previewSrc = IF read.captured = "attached" \/ (read.captured = "none" /\ p.hasSlot)
                             THEN read.file ELSE @,
              !.avatarShown = FALSE]

FileLoaded(i) ==
    /\ profile' = PreviewLoaded(profile, reads[i])
    /\ reads' = LET rest == [j \in 1 .. Len(reads) - 1 |->
                                IF j < i THEN reads[j] ELSE reads[j + 1]]
                IN  IF reads[i].captured = "none" /\ profile.hasSlot
                    THEN Detached(rest) ELSE rest
    /\ lastOp' = Op("fileLoaded")
    /\ UNCHANGED offPicture

InitPicture ==
    /\ profile \in Profiles
    /\ reads = << >>
    /\ lastOp = Op("load")
    /\ ProductIdle /\ ResumeIdle /\ GalleryIdle /\ TasksIdle

NextPicture ==
    \/ ClearClick
    \/ \E file \in Files : SelectFile(file)
    \/ \E i \in DOMAIN reads : FileLoaded(i)

SpecPicture == InitPicture /\ [][NextPicture]_vars

\* C12: after a clear operation, whether the click ran the function once or
\* twice, and after any number of them, the form holds exactly one hidden
\* profile_picture-clear field.
C12_OneClearField ==
    (lastOp.name = "clear" /\ profile.hasForm) => profile.clearFields = 1

\* A click that ran the function twice has left one field in the form.
C12_Witness ==
    /\ lastOp.name = "clear"
    /\ profile.removeButton = "exact"
    /\ profile.hasForm
    /\ profile.clearFields = 1
    /\ ~profile.previewAttached

\* C18: once the hidden profile_picture-clear field is in the form no
\* operation removes it, a file selection and its preview included.
C18_ClearFieldStays ==
    [][profile.clearFields > 0 => profile'.clearFields >= profile.clearFields]_vars

\* A new file was selected and previewed after a clear: the form still
\* carries the clear field.
C18_Witness ==
    /\ lastOp.name = "fileLoaded"
    /\ profile.clearFields = 1
    /\ profile.fileValue = "a.png"
    /\ profile.previewAttached /\ profile.previewSrc = "a.png"

-----------------------------------------------------------------------------
(* Task list: accordion of task details *)

MaxTasks == 3
MaxScrollHeight == 2

\* Inline max-height of a details panel: not set, '0', or a pixel length.
Unset == [length |-> -1, unit |-> ""]
Zero == [length |-> 0, unit |-> ""]
Px(n) == [length |-> n, unit |-> "px"]

\* A .task-item as rendered: with or without a .task-header and a
\* .task-details-panel; the class active is carried only by an item whose
\* panel exists.
TaskItems ==
    {t \in [active : BOOLEAN, hasHeader : BOOLEAN, hasPanel : BOOLEAN,
            scrollHeight : 1 .. MaxScrollHeight, maxHeight : {Unset}] :
        t.active => t.hasPanel}

\* The items carrying the class active.
Active(items) == {j \in DOMAIN items : items[j].active}

\* The click listener is added only to a header whose item has a panel.
Wired(item) == item.hasHeader /\ item.hasPanel

\* A click that leaves the other open items open.
ClosedOthersKept(items, i) == items

\* Every other .task-item.active loses the class and its panel collapses.
ClosedOthers(items, i) ==
    [j \in DOMAIN items |->
        IF j # i /\ items[j].active
        THEN [items[j] EXCEPT !.active = FALSE, !.maxHeight = Zero]
        ELSE items[j]]

\* Toggle of the clicked item, on the class it had when the handler started.
Toggled(item, isActive) ==
    IF ~isActive
    THEN [item EXCEPT !.active = TRUE, !.maxHeight = Px(item.scrollHeight)]
    ELSE [item EXCEPT !.active = FALSE, !.maxHeight = Zero]

\* Click in the header of item i; onControl: the target is inside a button,
\* a link or an element with that role.  Every open item has a panel
\* (TaskItems), so the loop over the open items finds the panel of each.
HeaderClick(i, onControl) ==
    /\ Wired(taskItems[i])
    /\ clicked' = i
    /\ IF onControl
       THEN /\ lastOp' = Op("controlClick")
            /\ UNCHANGED taskItems
       ELSE LET isActive == taskItems[i].active
                closed == ClosedOthers(taskItems, i)
            IN  /\ lastOp' = Op("headerClick")
                /\ taskItems' = [closed EXCEPT ![i] = Toggled(closed[i], isActive)]
    /\ UNCHANGED offTasks

InitTasks ==
    /\ \E n \in 0 .. MaxTasks : taskItems \in [1 .. n -> TaskItems]
    /\ Cardinality(Active(taskItems)) <= 1
    /\ clicked = 0
    /\ lastOp = Op("load")
    /\ ProductIdle /\ ResumeIdle /\ GalleryIdle /\ PictureIdle

NextTasks ==
    \E i \in DOMAIN taskItems : \E onControl \in BOOLEAN : HeaderClick(i, onControl)

SpecTasks == InitTasks /\ [][NextTasks]_vars

\* C17: at most one task item is active; a header click on an inactive item
\* makes it the only active item, a header click on the active item leaves
\* none active, and a click on a button or link inside a header changes
\* nothing.
C17_OneActiveTask ==
    /\ [](Cardinality(Active(taskItems)) <= 1)
    /\ [][/\ lastOp'.name = "headerClick" =>
                Active(taskItems') =
                    IF taskItems[clicked'].active THEN {} ELSE {clicked'}
          /\ lastOp'.name = "controlClick" => taskItems' = taskItems]_vars

\* The second item was opened while the first was open: the first collapsed.
C17_Witness ==
    /\ lastOp.name = "headerClick"
    /\ clicked = 2
    /\ Active(taskItems) = {2}
    /\ taskItems[2].maxHeight = Px(taskItems[2].scrollHeight)
    /\ taskItems[1].maxHeight = Zero

-----------------------------------------------------------------------------
(* Properties the code does not have *)

\* C13 (as claimed): a handler that does not find an element it looks up is
\* a silent no-op: none throws, and the data handler of a success response
\* does not stop half way (its success notification followed by the error
\* notification of .catch).
C13_MissingElementsAreNoOps ==
    /\ lastOp.name \notin {"submitThrew", "addThrew", "selectThrew", "clearThrew"}
    /\ lastOp.name = "okBodySuccess" =>
           \A i \in DOMAIN alerts : alerts[i].type = "success"

\* C14 (as claimed): after an add, for every formset kind, the delete control
\* of the new block has a delete handler.
C14_NewBlockHasDeleteHandler ==
    \A b \in AddButtons :
        lastOp.name = b =>
            LET blocks == containers[AddHandlers[b].containerId]
            IN  blocks[Len(blocks)].deleteFor # ""

\* C15 (as claimed): renumbering rewrites the positional index only; a number
\* that belongs to the field name (the 2 of line2) stays as it is.
C15_FieldNumbersKept ==
    \A c \in DOMAIN containers : \A k \in DOMAIN containers[c] :
        FieldNumber(containers[c][k]) \in {-1, 2}

\* C16 (as claimed): a settled submission has shown exactly one notification,
\* a success notification for an OK response with success true and an error
\* notification otherwise.
C16_OneNotification ==
    lastOp.name \in SettleOps =>
        /\ Len(alerts) = 1
        /\ (alerts[1].type = "success") = (lastOp.name = "okBodySuccess")

====
